---- MODULE Spec2Model ----
(***************************************************************************)
(* Model of scratch/fix_md032.py: a walk over the tree under 'docs' that   *)
(* rewrites every '*.md' file so that each list-item line which follows a  *)
(* non-blank line gets a '\n' line inserted before it.                     *)
(*                                                                         *)
(* Text is modelled as sequences of one-character strings.  A file on disk *)
(* is a sequence of bytes; reading it decodes the bytes and translates the *)
(* line terminators (open(..., 'r') with newline=None), writing it         *)
(* translates '\n' to the platform's line separator.                       *)
(***************************************************************************)
EXTENDS Integers, Sequences, FiniteSets, TLC

(* ---------------------------------------------------------------------- *)
(* Bounds                                                                  *)
(* ---------------------------------------------------------------------- *)
MaxFiles == 3        \* files in a tree of several files
MaxLines == 3        \* pieces of text making up the file of a one-file tree

(* ---------------------------------------------------------------------- *)
(* Characters                                                              *)
(* ---------------------------------------------------------------------- *)
LF  == "\n"
CR  == "\r"
BAD == "\\xff"       \* a byte that is not valid UTF-8

\* str.isspace() / the regex class \s, restricted to the characters used
IsSpace(c) == c \in {" ", "\t", LF, CR}

\* the regex class \d
IsDigit(c) == c \in {"0", "1", "2"}

\* the regex class [-*+]
IsBullet(c) == c \in {"-", "*", "+"}

(* ---------------------------------------------------------------------- *)
(* Sequence helpers                                                        *)
(* ---------------------------------------------------------------------- *)
RECURSIVE Flatten(_)
\* f.writelines(result_lines) : the concatenation of the lines
Flatten(ls) == IF ls = <<>> THEN <<>> ELSE Head(ls) \o Flatten(Tail(ls))

RECURSIVE SpaceSpan(_, _)
\* number of characters a greedy \s* consumes from position k (1-based) of s
SpaceSpan(s, k) ==
    IF k <= Len(s) /\ IsSpace(s[k]) THEN 1 + SpaceSpan(s, k + 1) ELSE 0

RECURSIVE DigitSpan(_, _)
\* number of characters a greedy \d+ consumes from position k (1-based) of s
DigitSpan(s, k) ==
    IF k <= Len(s) /\ IsDigit(s[k]) THEN 1 + DigitSpan(s, k + 1) ELSE 0

\* re.match(r'^(\s*)[-*+]\s', line)
MatchBullet(line) ==
    LET k == SpaceSpan(line, 1)
    IN  /\ k + 2 <= Len(line)
        /\ IsBullet(line[k + 1])
        /\ IsSpace(line[k + 2])

\* re.match(r'^(\s*)\d+\.\s', line)
MatchNumbered(line) ==
    LET k == SpaceSpan(line, 1)
        d == DigitSpan(line, k + 1)
    IN  /\ d >= 1
        /\ k + d + 2 <= Len(line)
        /\ line[k + d + 1] = "."
        /\ IsSpace(line[k + d + 2])

\* the condition of the outer 'if' of the loop
IsListItem(line) == MatchBullet(line) \/ MatchNumbered(line)

RECURSIVE RStrip(_)
RStrip(s) ==
    IF s # <<>> /\ IsSpace(s[Len(s)]) THEN RStrip(SubSeq(s, 1, Len(s) - 1))
    ELSE s

\* variant: only blanks and tabs are stripped, as by strip(' \t')
RECURSIVE StripBlanksOnly(_)
StripBlanksOnly(s) ==
    IF s # <<>> /\ Head(s) \in {" ", "\t"} THEN StripBlanksOnly(Tail(s))
    ELSE IF s # <<>> /\ s[Len(s)] \in {" ", "\t"}
         THEN StripBlanksOnly(SubSeq(s, 1, Len(s) - 1))
         ELSE s

RECURSIVE LStrip(_)
LStrip(s) == IF s # <<>> /\ IsSpace(Head(s)) THEN LStrip(Tail(s)) ELSE s

\* str.strip()
Strip(s) == LStrip(RStrip(s))

(* ---------------------------------------------------------------------- *)
(* Text-mode I/O                                                           *)
(* ---------------------------------------------------------------------- *)
\* decoding as UTF-8 fails on an invalid byte
Decodable(bytes) == \A k \in 1..Len(bytes) : bytes[k] # BAD

RECURSIVE Universal(_)
\* newline=None on input: '\r\n' and a lone '\r' are translated to '\n'
Universal(s) ==
    IF s = <<>> THEN <<>>
    ELSE IF Head(s) = CR
         THEN IF Len(s) >= 2 /\ s[2] = LF
              THEN <<LF>> \o Universal(Tail(Tail(s)))
              ELSE <<LF>> \o Universal(Tail(s))
         ELSE <<Head(s)>> \o Universal(Tail(s))

RECURSIVE SplitLines(_, _)
\* cut the text after every '\n', keeping the terminators; cur is the line
\* under construction
SplitLines(s, cur) ==
    IF s = <<>> THEN (IF cur = <<>> THEN <<>> ELSE <<cur>>)
    ELSE IF Head(s) = LF
         THEN <<Append(cur, LF)>> \o SplitLines(Tail(s), <<>>)
         ELSE SplitLines(Tail(s), Append(cur, Head(s)))

\* f.readlines() of a file opened with open(file_path, 'r', encoding='utf-8')
ReadLines(bytes) == SplitLines(Universal(bytes), <<>>)

RECURSIVE Translate(_, _)
\* newline=None on output: every '\n' written becomes os.linesep
Translate(s, sep) ==
    IF s = <<>> THEN <<>>
    ELSE IF Head(s) = LF THEN sep \o Translate(Tail(s), sep)
         ELSE <<Head(s)>> \o Translate(Tail(s), sep)

\* f.writelines(result_lines) on a file opened with open(file_path, 'w', ...)
WriteLines(ls, sep) == Translate(Flatten(ls), sep)

(* ---------------------------------------------------------------------- *)
(* The inputs: the tree under 'docs'                                       *)
(* ---------------------------------------------------------------------- *)
\* str.endswith
EndsWith(s, suffix) ==
    /\ Len(suffix) <= Len(s)
    /\ SubSeq(s, Len(s) - Len(suffix) + 1, Len(s)) = suffix

\* variant: the suffix without its dot
MdSuffixNoDot == <<"m", "d">>

\* the literal '.md' of the walk's filter
MdSuffix == <<".", "m", "d">>

\* file names met by the walk
Names ==
    { <<"a", ".", "m", "d">>,          \* a.md
      <<"a", ".", "M", "D">>,          \* a.MD
      <<"m", "d">> }                   \* md

\* pieces of text a file is made of
Pieces ==
    { <<"x", LF>>,                          \* plain line
      <<LF>>,                               \* empty line
      <<" ", CR, LF>>,                      \* whitespace-only line, CRLF
      <<"-", " ", "a", LF>>,                \* bullet item
      <<" ", "1", ".", " ", "b", CR, LF>>,  \* indented numbered item, CRLF
      <<"-", "x", LF>>,                     \* marker without whitespace
      <<"*", LF>>,                          \* marker followed by the newline
      <<"1", "2", ".", "\t", "c", CR>>,     \* numbered item, lone CR
      <<"+", " ", "d">>,                    \* bullet item, no terminator
      <<BAD, LF>> }                         \* not UTF-8

\* the contents of at most n pieces
RECURSIVE Texts(_)
Texts(n) ==
    IF n = 0 THEN { <<>> }
    ELSE LET shorter == Texts(n - 1)
         IN  shorter \cup { t \o p : t \in shorter, p \in Pieces }

\* whole files of the trees of several files
SmallFiles ==
    { <<"x", LF, "-", " ", "a", LF>>,                    \* needs an insertion
      <<"x", CR, LF, CR, LF, "1", ".", " ", "b">>,       \* needs none
      <<BAD, LF>> }                                      \* not UTF-8

\* os.linesep
LineSeps == { <<LF>>, <<CR, LF>> }

(* ---------------------------------------------------------------------- *)
(* State                                                                   *)
(* ---------------------------------------------------------------------- *)
VARIABLES
    linesep,       \* os.linesep of the platform
    names,         \* the files of the tree in the order os.walk yields them
    disk,          \* disk[k] : the bytes of file k
    second,        \* TRUE in the second invocation of the script
    pc,            \* position of the script
    idx,           \* number of files the walk has yielded so far
    lines,         \* fix_md032_in_file : lines
    i,             \* fix_md032_in_file : loop index (0-based)
    result_lines,  \* fix_md032_in_file : result_lines
    modified,      \* fix_md032_in_file : modified
    inserted,      \* history: the indices i at which the loop inserted
    events,        \* history: the I/O of this invocation, in order
    orig,          \* history: the disk before the first invocation
    before         \* history: the disk at the start of this invocation

vars == <<linesep, names, disk, second, pc, idx, lines, i, result_lines,
          modified, inserted, events, orig, before>>

locals == <<lines, i, result_lines, modified, inserted>>
env    == <<linesep, names, second, orig, before>>

Ev(op, k) == [op |-> op, file |-> k]

\* trees of at most MaxFiles files, each a whole file of SmallFiles
InitTree ==
    \E n \in 0..MaxFiles :
        /\ names \in [1..n -> Names]
        /\ disk \in [1..n -> SmallFiles]

\* trees of one file of at most MaxLines pieces
InitOneFile ==
    /\ names \in [1..1 -> Names]
    /\ disk \in [1..1 -> Texts(MaxLines)]

Init ==
    /\ InitTree \/ InitOneFile
    /\ linesep \in LineSeps
    /\ second = FALSE
    /\ pc = "walk"
    /\ idx = 0
    /\ lines = <<>>
    /\ i = 0
    /\ result_lines = <<>>
    /\ modified = FALSE
    /\ inserted = <<>>
    /\ events = <<>>
    /\ orig = disk
    /\ before = disk

(* ---------------------------------------------------------------------- *)
(* The walk                                                                *)
(* ---------------------------------------------------------------------- *)
\* the walk yields a file whose name ends with '.md': call fix_md032_in_file
SelectFile ==
    /\ pc = "walk"
    /\ idx < Len(names)
    /\ EndsWith(names[idx + 1], MdSuffix)
    /\ idx' = idx + 1
    /\ pc' = "read"
    /\ UNCHANGED <<env, disk, locals, events>>

\* the walk yields a file whose name does not end with '.md'
SkipFile ==
    /\ pc = "walk"
    /\ idx < Len(names)
    /\ ~EndsWith(names[idx + 1], MdSuffix)
    /\ idx' = idx + 1
    /\ UNCHANGED <<env, disk, pc, locals, events>>

\* the walk is exhausted: the script ends
WalkEnd ==
    /\ pc = "walk"
    /\ idx = Len(names)
    /\ pc' = "done"
    /\ UNCHANGED <<env, disk, idx, locals, events>>

(* ---------------------------------------------------------------------- *)
(* fix_md032_in_file                                                       *)
(* ---------------------------------------------------------------------- *)
\* with open(file_path, 'r', encoding='utf-8') as f: lines = f.readlines()
\* modified = False; result_lines = []
ReadFile ==
    /\ pc = "read"
    /\ Decodable(disk[idx])
    /\ lines' = ReadLines(disk[idx])
    /\ modified' = FALSE
    /\ result_lines' = <<>>
    /\ i' = 0
    /\ inserted' = <<>>
    /\ events' = Append(events, Ev("read", idx))
    /\ pc' = "loop"
    /\ UNCHANGED <<env, disk, idx>>

\* variant: the error is caught and the walk goes on with the next file
ReadFaultCaught ==
    /\ pc = "read"
    /\ ~Decodable(disk[idx])
    /\ events' = Append(events, Ev("fault", idx))
    /\ pc' = "walk"
    /\ UNCHANGED <<env, disk, idx, locals>>

\* readlines() raises UnicodeDecodeError; nothing catches it
ReadFault ==
    /\ pc = "read"
    /\ ~Decodable(disk[idx])
    /\ events' = Append(events, Ev("fault", idx))
    /\ pc' = "crashed"
    /\ UNCHANGED <<env, disk, idx, locals>>

\* variant: a list item that follows a list item gets no blank line
InsertsSkipAdjacent(ls, k) ==
    /\ IsListItem(ls[k + 1])
    /\ k > 0
    /\ Strip(ls[k]) # <<>>
    /\ ~IsListItem(ls[k])

\* variant: the line before is not looked at
InsertsAlways(ls, k) ==
    /\ IsListItem(ls[k + 1])
    /\ k > 0

\* variant: no 'i > 0', so that lines[i-1] is the last line when i = 0
InsertsWrap(ls, k) ==
    /\ IsListItem(ls[k + 1])
    /\ Strip(ls[IF k = 0 THEN Len(ls) ELSE k]) # <<>>

\* the condition under which the loop body inserts before lines[k]
\* (k is the 0-based index of the source)
Inserts(ls, k) ==
    /\ IsListItem(ls[k + 1])
    /\ k > 0
    /\ Strip(ls[k]) # <<>>

\* one iteration of 'for i, line in enumerate(lines)'
LoopBody ==
    /\ pc = "loop"
    /\ i < Len(lines)
    /\ LET line == lines[i + 1]
       IN  IF Inserts(lines, i)
           THEN /\ result_lines' = Append(Append(result_lines, <<LF>>), line)
                /\ modified' = TRUE
                /\ inserted' = Append(inserted, i)
           ELSE /\ result_lines' = Append(result_lines, line)
                /\ UNCHANGED <<modified, inserted>>
    /\ i' = i + 1
    /\ UNCHANGED <<env, disk, pc, idx, lines, events>>

\* variant: the file is written back whether or not the loop inserted
LoopEndAlwaysWrite ==
    /\ pc = "loop"
    /\ i = Len(lines)
    /\ pc' = "write"
    /\ UNCHANGED <<env, disk, idx, locals, events>>

\* variant: the notification is printed outside 'if modified:'
LoopEndAlwaysPrint ==
    /\ pc = "loop"
    /\ i = Len(lines)
    /\ pc' = IF modified THEN "write" ELSE "print"
    /\ UNCHANGED <<env, disk, idx, locals, events>>

\* the loop is over: 'if modified:'
LoopEnd ==
    /\ pc = "loop"
    /\ i = Len(lines)
    /\ pc' = IF modified THEN "write" ELSE "return"
    /\ UNCHANGED <<env, disk, idx, locals, events>>

\* with open(file_path, 'w', encoding='utf-8') as f: f.writelines(result_lines)
WriteFile ==
    /\ pc = "write"
    /\ disk' = [disk EXCEPT ![idx] = WriteLines(result_lines, linesep)]
    /\ events' = Append(events, Ev("write", idx))
    /\ pc' = "print"
    /\ UNCHANGED <<env, idx, locals>>

\* print(f"Fixed MD032 errors in {file_path}")
PrintFixed ==
    /\ pc = "print"
    /\ events' = Append(events, Ev("print", idx))
    /\ pc' = "return"
    /\ UNCHANGED <<env, disk, idx, locals>>

\* variant: a file that was modified is processed again until it is clean
ReturnRepeat ==
    /\ pc = "return"
    /\ events' = Append(events, Ev(IF modified THEN "true" ELSE "false", idx))
    /\ pc' = IF modified THEN "read" ELSE "walk"
    /\ lines' = <<>>
    /\ i' = 0
    /\ result_lines' = <<>>
    /\ modified' = FALSE
    /\ inserted' = <<>>
    /\ UNCHANGED <<env, disk, idx>>

\* return modified
Return ==
    /\ pc = "return"
    /\ events' = Append(events, Ev(IF modified THEN "true" ELSE "false", idx))
    /\ pc' = "walk"
    /\ lines' = <<>>
    /\ i' = 0
    /\ result_lines' = <<>>
    /\ modified' = FALSE
    /\ inserted' = <<>>
    /\ UNCHANGED <<env, disk, idx>>

(* ---------------------------------------------------------------------- *)
(* Running the script again over the same tree                             *)
(* ---------------------------------------------------------------------- *)
Rerun ==
    /\ pc \in {"done", "crashed"}
    /\ ~second
    /\ second' = TRUE
    /\ before' = disk
    /\ events' = <<>>
    /\ idx' = 0
    /\ pc' = "walk"
    /\ UNCHANGED <<linesep, names, orig, disk, locals>>

Next ==
    \/ SelectFile
    \/ SkipFile
    \/ WalkEnd
    \/ ReadFile
    \/ ReadFault
    \/ LoopBody
    \/ LoopEnd
    \/ WriteFile
    \/ PrintFixed
    \/ Return
    \/ Rerun

Spec == Init /\ [][Next]_vars

\* a step of one invocation of the script
Step ==
    \/ SelectFile
    \/ SkipFile
    \/ WalkEnd
    \/ ReadFile
    \/ ReadFault
    \/ LoopBody
    \/ LoopEnd
    \/ WriteFile
    \/ PrintFixed
    \/ Return

\* the script is sequential code without suspension points: an invocation
\* goes on as long as it has a step to take
LiveSpec == Spec /\ WF_vars(Step)

TypeOK ==
    /\ pc \in {"walk", "read", "loop", "write", "print", "return", "done",
               "crashed"}
    /\ idx \in 0..Len(names)
    /\ i \in 0..Len(lines)
    /\ modified \in BOOLEAN
    /\ second \in BOOLEAN

(* ---------------------------------------------------------------------- *)
(* The vocabulary of the properties                                        *)
(* ---------------------------------------------------------------------- *)
\* a list-item line: optional leading whitespace, then '-', '*' or '+'
\* followed by whitespace, or one or more digits, '.' and whitespace
ListItemLine(line) ==
    \E k \in 0..Len(line) :
        /\ \A j \in 1..k : line[j] \in {" ", "\t", LF, CR}
        /\ \/ /\ k + 2 <= Len(line)
              /\ line[k + 1] \in {"-", "*", "+"}
              /\ line[k + 2] \in {" ", "\t", LF, CR}
           \/ \E d \in 1..Len(line) :
                 /\ k + d + 2 <= Len(line)
                 /\ \A j \in (k + 1)..(k + d) : line[j] \in {"0", "1", "2"}
                 /\ line[k + d + 1] = "."
                 /\ line[k + d + 2] \in {" ", "\t", LF, CR}

\* a blank line: nothing is left after stripping whitespace
BlankLine(line) == \A j \in 1..Len(line) : line[j] \in {" ", "\t", LF, CR}

\* the loop of fix_md032_in_file is over: result_lines is the output
LoopDone == pc \in {"write", "print", "return"}

\* the 0-based indices of the input lines that need a blank line before them
NeedsBlank(ls) ==
    { k \in 1..(Len(ls) - 1) : ListItemLine(ls[k + 1]) /\ ~BlankLine(ls[k]) }

\* the 1-based position in the output of the input line of 0-based index k
OutPos(ls, k) == k + 1 + Cardinality({ j \in NeedsBlank(ls) : j <= k })

Range(seq) == { seq[p] : p \in 1..Len(seq) }

(* ---------------------------------------------------------------------- *)
(* Properties                                                              *)
(* ---------------------------------------------------------------------- *)
\* C1: in the output of fix_md032_in_file, every list-item line at a
\* position after the first is preceded by a blank line.
C1_ListItemsFollowBlank ==
    LoopDone =>
        \A p \in 2..Len(result_lines) :
            ListItemLine(result_lines[p]) => BlankLine(result_lines[p - 1])

\* C1 witness: an output with two list items, both after inserted lines
C1_Witness ==
    /\ LoopDone
    /\ Len(inserted) >= 2
    /\ \E p \in 2..Len(result_lines) : ListItemLine(result_lines[p])

\* C2: a blank line is inserted before input line i exactly when i > 0,
\* line i is a list item and line i-1 is not blank (a list item included);
\* exactly one is inserted there, none anywhere else, and the output is as
\* long as the input plus the number of such lines.
C2_InsertionExact ==
    LoopDone =>
        /\ Range(inserted) = NeedsBlank(lines)
        /\ Len(inserted) = Cardinality(NeedsBlank(lines))
        /\ Len(result_lines) = Len(lines) + Cardinality(NeedsBlank(lines))
        /\ \A k \in 0..(Len(lines) - 1) :
              /\ result_lines[OutPos(lines, k)] = lines[k + 1]
              /\ k \in NeedsBlank(lines)
                    => result_lines[OutPos(lines, k) - 1] = <<LF>>
        /\ lines = << <<"x", LF>>, <<"-", " ", "a", LF>>, <<"-", " ", "a", LF>> >>
              => result_lines = << <<"x", LF>>, <<LF>>, <<"-", " ", "a", LF>>,
                                   <<LF>>, <<"-", " ", "a", LF>> >>

\* C2 witness: text, then two adjacent list items, has been transformed
C2_Witness ==
    /\ pc = "write"
    /\ lines = << <<"x", LF>>, <<"-", " ", "a", LF>>, <<"-", " ", "a", LF>> >>
    /\ inserted = <<1, 2>>

\* C7: the first line never triggers an insertion: the output starts with
\* the input's first line, and a file whose only list-item line is its first
\* line is not modified.
C7_FirstLineExempt ==
    /\ (pc = "loop" /\ i >= 1) \/ (LoopDone /\ lines # <<>>)
          => result_lines[1] = lines[1]
    /\ \A p \in 1..Len(inserted) : inserted[p] # 0
    /\ LoopDone /\ { k \in 0..(Len(lines) - 1) : ListItemLine(lines[k + 1]) } = {0}
          => ~modified /\ result_lines = lines /\ pc = "return"

\* C7 witness: a file of several lines whose first line is its only list
\* item has gone through the loop and is about to return False
C7_Witness ==
    /\ pc = "return"
    /\ ~modified
    /\ Len(lines) >= 2
    /\ ListItemLine(lines[1])
    /\ ~BlankLine(lines[Len(lines)])
    /\ \A k \in 2..Len(lines) : ~ListItemLine(lines[k])

\* the events of file k so far in this invocation
Did(op, k) == Ev(op, k) \in Range(events)
Times(op, k) == Cardinality({ p \in 1..Len(events) : events[p] = Ev(op, k) })

\* the name ends with the three characters '.', 'm', 'd'
MarkdownName(name) ==
    /\ Len(name) >= 3
    /\ name[Len(name) - 2] = "."
    /\ name[Len(name) - 1] = "m"
    /\ name[Len(name)] = "d"

\* the physical lines of a file: cut after every '\r\n', '\r' or '\n'
RECURSIVE FileLines(_, _)
FileLines(bytes, cur) ==
    IF bytes = <<>> THEN (IF cur = <<>> THEN <<>> ELSE <<cur>>)
    ELSE IF Head(bytes) = CR /\ Len(bytes) >= 2 /\ bytes[2] = LF
         THEN <<cur \o <<CR, LF>>>> \o FileLines(Tail(Tail(bytes)), <<>>)
    ELSE IF Head(bytes) \in {CR, LF}
         THEN <<Append(cur, Head(bytes))>> \o FileLines(Tail(bytes), <<>>)
         ELSE FileLines(Tail(bytes), Append(cur, Head(bytes)))

\* every list-item line of the file is its first line or follows a blank line
AlreadyCorrect(bytes) ==
    LET ls == FileLines(bytes, <<>>)
    IN  \A p \in 2..Len(ls) : ListItemLine(ls[p]) => BlankLine(ls[p - 1])

\* C3: idempotence: in a second run over the tree a first run has left, no
\* blank line is inserted, no file is written and none is reported, so
\* every file keeps the content the first run gave it.
C3_Idempotent ==
    second =>
        /\ disk = before
        /\ ~modified
        /\ inserted = <<>>
        /\ \A k \in 1..Len(names) :
              ~Did("write", k) /\ ~Did("print", k) /\ ~Did("true", k)
        /\ LoopDone => WriteLines(result_lines, linesep) = WriteLines(lines, linesep)

\* C3 witness: the second run has read again a file the first run rewrote
\* and has returned False for it
C3_Witness ==
    /\ second
    /\ pc = "done"
    /\ \E k \in 1..Len(names) : before[k] # orig[k] /\ Did("false", k)

\* C4: a Markdown file in which every list-item line is the first line or
\* follows a blank line is never opened for writing: its content stays the
\* same, fix_md032_in_file returns False and no notification names it.
C4_CorrectFileUntouched ==
    \A k \in 1..Len(names) :
        MarkdownName(names[k]) /\ Decodable(before[k]) /\ AlreadyCorrect(before[k])
            => /\ disk[k] = before[k]
               /\ ~Did("write", k) /\ ~Did("print", k) /\ ~Did("true", k)
               /\ idx = k => pc \notin {"write", "print"}
               /\ idx > k \/ pc = "done" => Did("false", k)

\* C4 witness: a file with a list item after a blank line has been processed
\* in the first run and False was returned
C4_Witness ==
    /\ ~second
    /\ \E k \in 1..Len(names) :
          /\ Did("false", k)
          /\ AlreadyCorrect(orig[k])
          /\ \E p \in 2..Len(FileLines(orig[k], <<>>)) :
                ListItemLine(FileLines(orig[k], <<>>)[p])

\* C5: a file whose name does not end with exactly '.md' is never read and
\* never written, whatever it contains; fix_md032_in_file only ever gets
\* files whose name ends with '.md'.
C5_OtherFilesUntouched ==
    /\ \A k \in 1..Len(names) :
          ~MarkdownName(names[k])
             => /\ disk[k] = orig[k]
                /\ \A p \in 1..Len(events) : events[p].file # k
    /\ pc \in {"read", "loop", "write", "print", "return"}
          => MarkdownName(names[idx])

\* C5 witness: the walk has gone past a file named a.MD that has a list item
\* right after text, and past a Markdown file that it rewrote
C5_Witness ==
    /\ pc = "done"
    /\ \E k \in 1..Len(names) :
          /\ names[k] = <<"a", ".", "M", "D">>
          /\ ~AlreadyCorrect(orig[k])
    /\ \E k \in 1..Len(names) : Did("write", k)

\* C8: a notification is printed for a file exactly when the file was
\* rewritten in this run, and a file is rewritten exactly when a blank line
\* was inserted; the notification comes after the write, at most once.
C8_NotifiedIffRewritten ==
    \A k \in 1..Len(names) :
        /\ Times("print", k) <= 1
        /\ \A p \in 1..Len(events) :
              events[p] = Ev("print", k)
                 => \E q \in 1..(p - 1) : events[q] = Ev("write", k)
        /\ Did("write", k) => Did("print", k) \/ (idx = k /\ pc = "print")
        /\ Did("true", k) \/ Did("false", k)
              => (Did("print", k) <=> Did("write", k))
        /\ disk[k] # before[k] => Did("write", k)
        /\ idx = k /\ pc \in {"print", "return"}
              => (Did("write", k) <=> inserted # <<>>)
        /\ idx = k /\ pc = "write" => inserted # <<>>
        /\ Did("write", k) <=> Len(FileLines(disk[k], <<>>)) > Len(FileLines(before[k], <<>>))

\* C8 witness: a run that rewrote and reported one file and left another
\* Markdown file alone without reporting it
C8_Witness ==
    /\ pc = "done"
    /\ \E k \in 1..Len(names) : Did("write", k) /\ Did("print", k)
    /\ \E k \in 1..Len(names) : Did("false", k) /\ ~Did("print", k)

\* new is old with some '\n' characters inserted and nothing else changed
RECURSIVE OnlyNewlinesInserted(_, _)
OnlyNewlinesInserted(old, new) ==
    IF new = <<>> THEN old = <<>>
    ELSE \/ old # <<>> /\ Head(old) = Head(new)
               /\ OnlyNewlinesInserted(Tail(old), Tail(new))
         \/ Head(new) = LF /\ OnlyNewlinesInserted(old, Tail(new))

\* C6: a rewritten file is the original file with single newline characters
\* inserted and nothing else changed: every original line is there, in
\* order, with its own terminator, and removing the inserted lines gives
\* back the original bytes.
C6_OnlyBlankLinesAdded ==
    \A k \in 1..Len(names) :
        Did("write", k)
           => /\ OnlyNewlinesInserted(before[k], disk[k])
              /\ idx = k /\ pc = "print"
                    => Len(disk[k]) = Len(before[k]) + Len(inserted)

\* C9: when reading a selected file fails, the run stops there: the
\* faulting file is not written, no later file is read or written, and the
\* files rewritten before the fault stay rewritten.
C9_StopsAtFirstFault ==
    /\ pc = "crashed" => Did("fault", idx)
    /\ pc = "read" /\ ~Decodable(disk[idx]) => ~ENABLED ReadFile
    /\ \A k \in 1..Len(names) :
          Did("fault", k)
             => /\ pc = "crashed" /\ idx = k
                /\ events[Len(events)] = Ev("fault", k)
                /\ Times("fault", k) = 1
                /\ ~Did("read", k) /\ ~Did("write", k)
                /\ disk[k] = before[k]
                /\ \A j \in (k + 1)..Len(names) :
                      /\ disk[j] = before[j]
                      /\ \A p \in 1..Len(events) : events[p].file # j
                /\ \A j \in 1..(k - 1) :
                      MarkdownName(names[j]) /\ ~AlreadyCorrect(before[j])
                         => /\ Did("write", j)
                            /\ disk[j] # before[j]
                            /\ AlreadyCorrect(disk[j])

\* C9 witness: the first file was rewritten, the second cannot be decoded,
\* and a third Markdown file that needs an insertion comes after it
C9_Witness ==
    /\ pc = "crashed"
    /\ ~second
    /\ idx = 2
    /\ Len(names) = 3
    /\ Did("write", 1)
    /\ MarkdownName(names[3])
    /\ Decodable(disk[3])
    /\ ~AlreadyCorrect(disk[3])

\* no selected file of the tree fails to decode
NoFault ==
    \A k \in 1..Len(names) : MarkdownName(names[k]) => Decodable(before[k])

\* the I/O of an invocation is one file after the other
Sequential ==
    /\ \A k \in 1..Len(names) :
          /\ Times("read", k) <= 1
          /\ Times("write", k) <= 1
          /\ \A p \in 1..Len(events) :
                events[p] = Ev("write", k)
                   => \E q \in 1..(p - 1) : events[q] = Ev("read", k)
          /\ k < idx /\ MarkdownName(names[k])
                => Did("read", k) /\ (Did("true", k) \/ Did("false", k))
          /\ k > idx => \A p \in 1..Len(events) : events[p].file # k
    /\ \A p, q \in 1..Len(events) : p < q => events[p].file <= events[q].file
    /\ pc \in {"write", "print", "return"} => i = Len(lines) /\ Did("read", idx)
    /\ pc = "done"
          => /\ idx = Len(names)
             /\ \A k \in 1..Len(names) :
                   MarkdownName(names[k])
                      => Times("read", k) = 1
                         /\ (Did("true", k) \/ Did("false", k))

\* C10: in a run without a fault every selected file is read exactly once
\* and written at most once, after its read; the reading and writing of one
\* file is over before the next file is read; and the run ends once the
\* walk has yielded every file.
C10_SequentialAndTerminates ==
    /\ [](NoFault => Sequential)
    /\ (NoFault /\ pc = "walk" /\ idx = 0) ~> (pc = "done")

\* C10 witness: a run over three Markdown files has ended without a fault,
\* with a file rewritten and a file left alone
C10_Witness ==
    /\ pc = "done"
    /\ NoFault
    /\ Len(names) = 3
    /\ \A k \in 1..3 : Did("read", k)
    /\ \E k \in 1..3 : Did("write", k)
    /\ \E k \in 1..3 : ~Did("write", k)

====
